---- MODULE Spec2Model ----
(***************************************************************************)
(* runpod_worker/handler.py: a serverless worker that loads a SigLIP model *)
(* and a label list on cold start (load_model), then answers each request  *)
(* (handler) with the five labels of highest softmax probability.          *)
(*                                                                         *)
(* Probabilities are exact rationals <<num, den>>; a returned score is an  *)
(* integer number of ten-thousandths (round(p, 4) * 10000).  A logit is    *)
(* carried as its exponential, a positive integer, so that softmax is      *)
(* exp(l_i) / SUM_j exp(l_j) without a transcendental function.            *)
(***************************************************************************)
EXTENDS Integers, Sequences, FiniteSets, TLC

\* ------------------------------------------------------------------ bounds
MaxLabels == 6       \* lines of labels.txt in the request-handling runs
MaxW == 2            \* largest exp(logit) the checkpoint produces
MaxRawLines == 2     \* lines of labels.txt in the cold-start runs
MaxLineLen == 2      \* characters of one raw line in the cold-start runs

\* ------------------------------------------------------- program constants
TopK == 5            \* probs.argsort(descending=True)[:5]
Decimals == 4        \* round(probs[idx].item(), 4)

RECURSIVE Pow10(_)
Pow10(n) == IF n = 0 THEN 1 ELSE 10 * Pow10(n - 1)

Unit == Pow10(Decimals)     \* one ten-thousandth is the unit of a score

Min(a, b) == IF a <= b THEN a ELSE b

\* ------------------------------------------------------------- text, files
Whitespace == {" ", "\n"}
Letters == {"a", "b"}
Digits == {ToString(i) : i \in 1..(MaxLabels + 1)}

\* str.strip(): drop leading and trailing whitespace.
RECURSIVE LStrip(_)
LStrip(s) ==
    IF s # <<>> /\ Head(s) \in Whitespace THEN LStrip(Tail(s)) ELSE s

RECURSIVE RStrip(_)
RStrip(s) ==
    IF s # <<>> /\ s[Len(s)] \in Whitespace
    THEN RStrip(SubSeq(s, 1, Len(s) - 1))
    ELSE s

Strip(s) == RStrip(LStrip(s))

\* f.readlines(): every line of the file, its newline kept.
ReadLines(file) == [i \in 1..Len(file) |-> file[i] \o <<"\n">>]

\* [line.strip() for line in lines if line.strip()]
RECURSIVE StripNonBlank(_)
StripNonBlank(lines) ==
    IF lines = <<>> THEN <<>>
    ELSE IF Strip(Head(lines)) # <<>>
         THEN <<Strip(Head(lines))>> \o StripNonBlank(Tail(lines))
         ELSE StripNonBlank(Tail(lines))

\* f"a photo of {label}"
Prompt(label) == <<"a photo of ">> \o label

\* -------------------------------------------------------------- exceptions
\* Classes derived from Exception, which "except Exception" catches.
ExceptionSubclasses ==
    {"KeyError", "binascii.Error", "UnidentifiedImageError", "ValueError",
     "TypeError", "IndexError"}

\* KeyboardInterrupt derives from BaseException only.
BaseOnlyClasses == {"KeyboardInterrupt"}

NoExc == [cls |-> "", msg |-> ""]
Exc(c, m) == [cls |-> c, msg |-> m]

\* except Exception as e
CaughtOnlyKeyError(e) == e.cls = "KeyError"

Caught(e) == e.cls \in ExceptionSubclasses

\* ------------------------------------------------------------ the requests
\* event = {}, {"input": {}} or {"input": {"image_base64": s}}
B64Strings == {"abc", "bm90IGFuIGltYWdl", "UE5HOmNhdA==", "UE5HOjF4MQ=="}

Events ==
    {[hasInput |-> FALSE, hasImage |-> FALSE, image_base64 |-> ""],
     [hasInput |-> TRUE, hasImage |-> FALSE, image_base64 |-> ""]}
    \cup {[hasInput |-> TRUE, hasImage |-> TRUE, image_base64 |-> s] :
            s \in B64Strings}

Ok(v) == [ok |-> TRUE, val |-> v, exc |-> NoExc]
Raises(c, m) == [ok |-> FALSE, val |-> "", exc |-> Exc(c, m)]

\* event["input"]["image_base64"]
GetImageBase64(ev) ==
    IF ~ev.hasInput THEN Raises("KeyError", "'input'")
    ELSE IF ~ev.hasImage THEN Raises("KeyError", "'image_base64'")
    ELSE Ok(ev.image_base64)

\* base64.b64decode(s): three characters cannot be padded base64.
B64Decode(s) ==
    CASE s = "abc" -> Raises("binascii.Error", "Incorrect padding")
      [] s = "bm90IGFuIGltYWdl" -> Ok("not an image")
      [] s = "UE5HOmNhdA==" -> Ok("PNG:cat")
      [] s = "UE5HOjF4MQ==" -> Ok("PNG:1x1")

\* Image.open(BytesIO(image_bytes)).convert("RGB"): a picture of a cat, a
\* picture of one pixel (which the processor rejects), or no picture at all.
ImageOpen(bytes) ==
    CASE bytes = "PNG:cat" -> Ok("cat")
      [] bytes = "PNG:1x1" -> Ok("1x1")
      [] OTHER -> Raises("UnidentifiedImageError", "cannot identify image file")

NoImage == ""
ScorableImages == {"cat"}

\* Lines 46-48 as one computation: the image, or the first exception raised.
DecodeImage(ev) ==
    LET field == GetImageBase64(ev)
    IN  IF ~field.ok THEN field
        ELSE LET bytes == B64Decode(field.val)
             IN  IF ~bytes.ok THEN bytes ELSE ImageOpen(bytes.val)

\* ------------------------------------------------- the model and its output
\* A checkpoint gives, for a decodable image and the leading letter of the
\* label in the prompt, the exponential of the image-text logit.
Checkpoints == [ScorableImages -> [Letters -> 1..MaxW]]

NoCheckpoint == [i \in ScorableImages |-> [c \in Letters |-> 0]]
NoneModel == [name |-> "None", expLogit |-> NoCheckpoint]
NoneProcessor == "None"
ModelName == "google/siglip-base-patch16-224"

\* What the processor does with no text at all is the library's to decide:
\* it raises, or it gives inputs from which the model computes no logit.
EmptyTextOutcomes == {"raises", "empty"}

\* processor(text=text_inputs, images=image, return_tensors="pt", padding=True)
ProcessorCall(proc, texts, image, onEmpty) ==
    IF proc = NoneProcessor
    THEN Raises("TypeError", "'NoneType' object is not callable")
    ELSE IF texts = <<>> /\ onEmpty = "raises"
    THEN Raises("ValueError", "empty text input")
    ELSE IF image \notin ScorableImages
    THEN Raises("ValueError", "Unable to infer channel dimension format")
    ELSE Ok([text |-> texts, image |-> image])

\* The leading letter of the label, which follows the prompt's prefix.
TextFeature(text) == text[2]

\* model(**inputs).logits_per_image, one exp(logit) per text
ExpLogits(m, inputs) ==
    [i \in 1..Len(inputs.text) |->
        m.expLogit[inputs.image][TextFeature(inputs.text[i])]]

RECURSIVE SumSeq(_)
SumSeq(s) == IF s = <<>> THEN 0 ELSE Head(s) + SumSeq(Tail(s))

\* logits_per_image.softmax(dim=1)[0]: exp(l_i) / SUM_j exp(l_j)
SoftmaxUnnormalised(ws) == [i \in 1..Len(ws) |-> <<ws[i], 1>>]

Softmax(ws) == [i \in 1..Len(ws) |-> <<ws[i], SumSeq(ws)>>]

\* p > q and p = q for rationals <<num, den>> with den > 0
Greater(p, q) == p[1] * q[2] > q[1] * p[2]
Same(p, q) == p[1] * q[2] = q[1] * p[2]

\* argsort is not stable: equal probabilities come out in an order that the
\* sorting routine fixes, lower index first or higher index first.
TieOrders == {"low_first", "high_first"}

\* Index i may come before index j: descending=True puts the greater
\* probability first.
Precedes(ps, ties, descending, i, j) ==
    \/ IF descending THEN Greater(ps[i], ps[j]) ELSE Greater(ps[j], ps[i])
    \/ /\ Same(ps[i], ps[j])
       /\ IF ties = "low_first" THEN i <= j ELSE i >= j

RECURSIVE SortBy(_, _, _, _)
SortBy(ps, ties, descending, rest) ==
    IF rest = {} THEN <<>>
    ELSE LET i == CHOOSE k \in rest :
                      \A j \in rest : Precedes(ps, ties, descending, k, j)
         IN  <<i>> \o SortBy(ps, ties, descending, rest \ {i})

\* probs.argsort(descending=True)
ArgsortAscending(ps, ties) == SortBy(ps, ties, FALSE, 1..Len(ps))

Argsort(ps, ties) == SortBy(ps, ties, TRUE, 1..Len(ps))

\* s[:k]
TakeAll(s, k) == s

Take(s, k) == SubSeq(s, 1, Min(k, Len(s)))

\* round(x, 4) in ten-thousandths: to nearest, a tie to the even neighbour
RoundUp(p) == (Unit * p[1] + p[2] - 1) \div p[2]

Round(p) ==
    LET q == (Unit * p[1]) \div p[2]
        r == (Unit * p[1]) % p[2]
    IN  IF 2 * r < p[2] THEN q
        ELSE IF 2 * r > p[2] THEN q + 1
        ELSE IF q % 2 = 0 THEN q ELSE q + 1

\* [{"label": labels[idx.item()], "score": round(probs[idx].item(), 4)}
\*  for idx in top5_indices]
ResultsByPosition(ls, ps, idxs) ==
    IF \E j \in 1..Len(idxs) : j > Len(ls)
    THEN Raises("IndexError", "list index out of range")
    ELSE Ok([j \in 1..Len(idxs) |->
                [label |-> ls[j], score |-> Round(ps[idxs[j]])]])

Results(ls, ps, idxs) ==
    IF \E j \in 1..Len(idxs) : idxs[j] > Len(ls)
    THEN Raises("IndexError", "list index out of range")
    ELSE Ok([j \in 1..Len(idxs) |->
                [label |-> ls[idxs[j]], score |-> Round(ps[idxs[j]])]])

\* ------------------------------------------------------------ responses
NoResp == [kind |-> "none", results |-> <<>>, error |-> ""]
ListResp(res) == [kind |-> "list", results |-> res, error |-> ""]
ErrorResp(msg) == [kind |-> "error", results |-> <<>>, error |-> msg]

\* ------------------------------------------------------------------ state
Requests == {"r1", "r2"}     \* invocations of handler the host has in flight

VARIABLES
    pc,          \* position of the module's top-level code (lines 82-88)
    loadCalls,   \* calls of load_model so far
    hub,         \* the model hub: what from_pretrained finds
    labelsFile,  \* labels.txt: whether it exists, and its lines
    sortTies,    \* the order argsort gives to equal probabilities
    emptyText,   \* what the processor does with an empty list of prompts
    model,       \* global model
    processor,   \* global processor
    labels,      \* global labels
    req          \* per invocation of handler: its locals and its response

vars ==
    <<pc, loadCalls, hub, labelsFile, sortTies, emptyText, model, processor,
      labels, req>>
env == <<hub, labelsFile, sortTies, emptyText>>
globals == <<model, processor, labels>>

IdleReq ==
    [stage |-> "idle", event |-> [hasInput |-> FALSE, hasImage |-> FALSE,
                                  image_base64 |-> ""],
     image |-> NoImage, probs |-> <<>>, top5_indices |-> <<>>,
     exc |-> NoExc, resp |-> NoResp]

\* Files of the request-handling runs: line i is a letter and the digit i.
MainFiles ==
    UNION {[1..n -> Letters] : n \in 0..MaxLabels}

MainLines(f) == [i \in 1..Len(f) |-> <<f[i], ToString(i)>>]

\* Files of the cold-start runs: any short lines of blanks and letters.
RawLines ==
    UNION {[1..n -> {" "} \cup Letters] : n \in 0..MaxLineLen}

RawFiles ==
    UNION {[1..n -> RawLines] : n \in 0..MaxRawLines}

HubStates ==
    {[status |-> "no_model", checkpoint |-> NoCheckpoint],
     [status |-> "no_processor", checkpoint |-> NoCheckpoint]}
    \cup {[status |-> "ok", checkpoint |-> c] : c \in Checkpoints}

\* Lines 9-11: the globals before load_model.
InitProgram ==
    /\ pc = "start"
    /\ loadCalls = 0
    /\ model = NoneModel
    /\ processor = NoneProcessor
    /\ labels = <<>>
    /\ req = [r \in Requests |-> IdleReq]

Init ==
    /\ InitProgram
    /\ hub \in HubStates
    /\ labelsFile \in
         {[exists |-> FALSE, lines |-> <<>>]}
         \cup {[exists |-> TRUE, lines |-> MainLines(f)] : f \in MainFiles}
    /\ sortTies \in TieOrders
    \* Read only when there is no label: drawn only for a file without lines.
    /\ emptyText \in IF labelsFile.exists /\ labelsFile.lines = <<>>
                      THEN EmptyTextOutcomes
                      ELSE {"raises"}

InitLoad ==
    /\ InitProgram
    /\ hub \in {h \in HubStates :
                  h.status = "ok" => \A i \in ScorableImages :
                                       \A c \in Letters : h.checkpoint[i][c] = 1}
    /\ labelsFile \in
         {[exists |-> FALSE, lines |-> <<>>]}
         \cup {[exists |-> TRUE, lines |-> f] : f \in RawFiles}
    /\ sortTies = "low_first"
    /\ emptyText = "raises"

\* ------------------------------------------------------- cold start (14-35)
\* Lines 18-28: from_pretrained of the model, then of the processor; either
\* raises when the hub does not have it, and load_model is left by the
\* exception.
LoadModel ==
    /\ pc = "start"
    /\ loadCalls' = loadCalls + 1
    /\ model' = IF hub.status = "no_model" THEN model
                ELSE [name |-> ModelName, expLogit |-> hub.checkpoint]
    /\ processor' = IF hub.status = "ok" THEN "SiglipProcessor" ELSE processor
    /\ pc' = IF hub.status = "ok" THEN "model_loaded" ELSE "load_failed"
    /\ UNCHANGED <<env, labels, req>>

\* Lines 30-35: open("labels.txt") raises when the file is missing.
LoadLabels ==
    /\ pc = "model_loaded"
    /\ IF labelsFile.exists
       THEN /\ labels' = StripNonBlank(ReadLines(labelsFile.lines))
            /\ pc' = "ready"
       ELSE /\ labels' = labels
            /\ pc' = "load_failed"
    /\ UNCHANGED <<env, loadCalls, model, processor, req>>

\* Line 88: runpod.serverless.start, reached only when load_model returned.
StartBeforeLoad ==
    /\ pc \in {"start", "ready"}
    /\ pc' = "serving"
    /\ UNCHANGED <<env, loadCalls, globals, req>>

StartWorker ==
    /\ pc = "ready"
    /\ pc' = "serving"
    /\ UNCHANGED <<env, loadCalls, globals, req>>

\* --------------------------------------------------------- handler (38-79)
\* Lines 77-79: an exception raised in the try block is returned as
\* {"error": str(e)} when the except clause catches it; otherwise it leaves
\* handler and ends the worker.
Fail(r, q, e) ==
    IF Caught(e)
    THEN /\ req' = [req EXCEPT ![r] = [q EXCEPT !.stage = "done", !.exc = e,
                                                !.resp = ErrorResp(e.msg)]]
         /\ pc' = pc
    ELSE /\ req' = [req EXCEPT ![r] = [q EXCEPT !.stage = "aborted", !.exc = e]]
         /\ pc' = "crashed"

\* Lines 44-48: the host calls handler(event); the image is decoded.
Decode(r, ev) ==
    /\ pc = "serving"
    /\ req[r].stage = "idle"
    /\ LET q == [req[r] EXCEPT !.event = ev]
           d == DecodeImage(ev)
       IN  IF d.ok
           THEN /\ req' = [req EXCEPT ![r] = [q EXCEPT !.stage = "decoded",
                                                       !.image = d.val]]
                /\ pc' = pc
           ELSE Fail(r, q, d.exc)
    /\ UNCHANGED <<env, loadCalls, globals>>

\* Lines 50-66: prompts from the labels, processor, model, softmax.
Score(r) ==
    /\ pc = "serving"
    /\ req[r].stage = "decoded"
    /\ LET text_inputs == [i \in 1..Len(labels) |-> Prompt(labels[i])]
           inputs == ProcessorCall(processor, text_inputs, req[r].image, emptyText)
       IN  \/ /\ ~inputs.ok
              /\ Fail(r, req[r], inputs.exc)
           \/ /\ inputs.ok
              /\ req' = [req EXCEPT ![r] =
                           [@ EXCEPT !.stage = "scored",
                                     !.probs = Softmax(ExpLogits(model, inputs.val))]]
              /\ pc' = pc
    /\ UNCHANGED <<env, loadCalls, globals>>

\* Lines 68-75: the five highest probabilities, as {label, score} entries.
RankOutcome(r) ==
    LET top5_indices == Take(Argsort(req[r].probs, sortTies), TopK)
        results == Results(labels, req[r].probs, top5_indices)
    IN  IF results.ok
        THEN /\ req' = [req EXCEPT ![r] =
                          [@ EXCEPT !.stage = "done",
                                    !.top5_indices = top5_indices,
                                    !.resp = ListResp(results.val)]]
             /\ pc' = pc
        ELSE Fail(r, req[r], results.exc)

RankKeepsTop5Labels(r) ==
    /\ pc = "serving"
    /\ req[r].stage = "scored"
    /\ RankOutcome(r)
    /\ labels' = Take(labels, TopK)
    /\ UNCHANGED <<env, loadCalls, model, processor>>

Rank(r) ==
    /\ pc = "serving"
    /\ req[r].stage = "scored"
    /\ RankOutcome(r)
    /\ UNCHANGED <<env, loadCalls, globals>>

\* The host takes the value handler returned; the invocation is over.
Return(r) ==
    /\ pc = "serving"
    /\ req[r].stage = "done"
    /\ req' = [req EXCEPT ![r] = IdleReq]
    /\ UNCHANGED <<pc, env, loadCalls, globals>>

\* A KeyboardInterrupt delivered while handler runs.
Interrupt(r) ==
    /\ pc = "serving"
    /\ req[r].stage \in {"decoded", "scored"}
    /\ Fail(r, req[r], Exc("KeyboardInterrupt", ""))
    /\ UNCHANGED <<env, loadCalls, globals>>

\* ---------------------------------------------------------- specifications
Next ==
    \/ LoadModel
    \/ LoadLabels
    \/ StartWorker
    \/ \E r \in Requests : \E ev \in Events : Decode(r, ev)
    \/ \E r \in Requests : Score(r)
    \/ \E r \in Requests : Rank(r)
    \/ \E r \in Requests : Return(r)
    \/ \E r \in Requests : Interrupt(r)

Spec == Init /\ [][Next]_vars

\* Cold start alone, over every short content of labels.txt.
NextLoad ==
    \/ LoadModel
    \/ LoadLabels
    \/ StartWorker

SpecLoad == InitLoad /\ [][NextLoad]_vars

\* ------------------------------------------------------------ properties
Succeeded(r) == req[r].stage = "done" /\ req[r].resp.kind = "list"
Failed(r) == req[r].stage = "done" /\ req[r].resp.kind = "error"

Range(s) == {s[i] : i \in 1..Len(s)}

RECURSIVE SumScores(_)
SumScores(res) == IF res = <<>> THEN 0 ELSE Head(res).score + SumScores(Tail(res))

\* The probability vector of a request, from the loaded model and labels.
ProbsOf(r) ==
    Softmax(ExpLogits(model, [text |-> [i \in 1..Len(labels) |-> Prompt(labels[i])],
                              image |-> req[r].image]))

\* C1: a successful response is the top-min(5,|L|) selection: min(5,|L|)
\* entries from pairwise distinct indices of the label list, each entry the
\* label and the rounded probability of one and the same index, and no index
\* left out has a probability strictly greater than one that was returned.
C1_TopSelection ==
    \A r \in Requests :
        Succeeded(r) =>
            LET res == req[r].resp.results
                idx == req[r].top5_indices
                p == ProbsOf(r)
                n == Len(labels)
            IN  /\ Len(res) = Min(5, n)
                /\ Len(idx) = Len(res)
                /\ \A j \in 1..Len(idx) : idx[j] \in 1..n
                /\ \A j, k \in 1..Len(idx) : j # k => idx[j] # idx[k]
                /\ \A j \in 1..Len(res) :
                       res[j] = [label |-> labels[idx[j]], score |-> Round(p[idx[j]])]
                /\ \A i \in (1..n) \ Range(idx) :
                       \A j \in 1..Len(idx) : ~Greater(p[i], p[idx[j]])

\* More than five labels of unequal probability, and the five returned are
\* not the first five of the list.
C1_Witness ==
    \E r \in Requests :
        /\ Succeeded(r)
        /\ Len(labels) > 5
        /\ Len(req[r].resp.results) = 5
        /\ req[r].top5_indices # <<1, 2, 3, 4, 5>>
        /\ \E i, j \in 1..Len(labels) : Greater(ProbsOf(r)[i], ProbsOf(r)[j])

\* C2: a request in which a step raises an exception derived from Exception
\* (a missing key, bad base64, bytes that are no image, the processor or the
\* model raising, an empty label list) ends with the one record
\* {"error": str(e)} and the exception does not leave handler; a response is
\* a list of entries or an error record, never both.
C2_FailureIsAValue ==
    \A r \in Requests :
        /\ req[r].exc.cls \in ExceptionSubclasses =>
               /\ req[r].stage = "done"
               /\ req[r].resp = ErrorResp(req[r].exc.msg)
        /\ (req[r].stage # "idle" /\ ~DecodeImage(req[r].event).ok) => Failed(r)
        /\ req[r].stage = "aborted" => req[r].exc.cls \in BaseOnlyClasses
        /\ req[r].resp.kind = "list" => req[r].resp.error = "" /\ req[r].exc = NoExc
        /\ req[r].resp.kind = "error" => req[r].resp.results = <<>>
        /\ req[r].stage = "done" => req[r].resp.kind \in {"list", "error"}

\* One request failed on bytes that are no image, another on the processor.
C2_Witness ==
    \E r1, r2 \in Requests :
        /\ Failed(r1) /\ req[r1].exc.cls = "UnidentifiedImageError"
        /\ Failed(r2) /\ req[r2].exc.cls = "ValueError" /\ labels # <<>>
        /\ pc = "serving"

\* C3: a successful response has at most 5 entries.
C3_AtMostFive ==
    \A r \in Requests : Succeeded(r) => Len(req[r].resp.results) <= 5

C3_Witness ==
    \E r \in Requests :
        Succeeded(r) /\ Len(labels) > 5 /\ Len(req[r].resp.results) = 5

\* C4: the returned (rounded) scores are in descending order.
C4_Descending ==
    \A r \in Requests :
        Succeeded(r) =>
            LET res == req[r].resp.results
            IN  \A j \in 1..(Len(res) - 1) : res[j].score >= res[j + 1].score

C4_Witness ==
    \E r \in Requests :
        /\ Succeeded(r)
        /\ Len(req[r].resp.results) = 5
        /\ req[r].resp.results[1].score > req[r].resp.results[5].score
        /\ req[r].top5_indices[1] > req[r].top5_indices[5]

\* C5 as stated: the returned scores sum to at most 1 (10000 ten-thousandths).
C5_SumAtMostOne ==
    \A r \in Requests : Succeeded(r) => SumScores(req[r].resp.results) <= Unit

\* C5 amended: the returned scores sum to at most 1 plus half a ten-thousandth
\* for each returned entry, hence to at most 1.0002, and the probabilities
\* they are rounded from sum to at most 1.
C5_SumAtMostOnePlusRounding ==
    \A r \in Requests :
        Succeeded(r) =>
            LET res == req[r].resp.results
                idx == req[r].top5_indices
                p == ProbsOf(r)
            IN  /\ 2 * SumScores(res) <= 2 * Unit + Len(res)
                /\ SumScores(res) <= Unit + 2
                /\ \A i \in Range(idx) :
                       SumSeq([j \in 1..Len(idx) |-> p[idx[j]][1]]) * p[i][2]
                           <= p[i][2] * p[i][2]

\* The returned scores sum to more than 1.
C5_Witness ==
    \E r \in Requests : Succeeded(r) /\ SumScores(req[r].resp.results) > Unit

\* C6: every returned score is in [0, 1].
C6_ScoreInUnitInterval ==
    \A r \in Requests :
        Succeeded(r) =>
            \A j \in 1..Len(req[r].resp.results) :
                /\ req[r].resp.results[j].score >= 0
                /\ req[r].resp.results[j].score <= Unit

\* The one label of a one-line file is returned with the score 1.
C6_Witness ==
    \E r \in Requests :
        /\ Succeeded(r)
        /\ Len(labels) = 1
        /\ req[r].resp.results[1].score = Unit

\* C7: once load_model has returned, no step of handler, of a successful or
\* a failing request, changes the globals labels, model or processor.
C7_GlobalsImmutable ==
    [][(pc \in {"ready", "serving", "crashed"}) => UNCHANGED globals]_vars

\* A successful and a failing request have both been handled.
C7_Witness ==
    \E r1, r2 \in Requests :
        /\ Succeeded(r1) /\ Failed(r2)
        /\ Len(labels) > 5

\* C8 as stated: whenever load_model has returned, labels holds at least one
\* entry, and every entry is a non-blank, whitespace-stripped string.
C8_LabelsNonEmpty ==
    pc \in {"ready", "serving"} =>
        /\ Len(labels) >= 1
        /\ \A i \in 1..Len(labels) :
               labels[i] # <<>> /\ Strip(labels[i]) = labels[i]

\* C9: handler runs only after the one call of load_model has returned, with
\* model, processor and labels set; when load_model raised, the worker is
\* never started and no request is handled.
C9_ColdStartFirst ==
    /\ [](/\ loadCalls <= 1
          /\ \A r \in Requests :
                 req[r] # IdleReq => pc \in {"serving", "crashed"}
          /\ pc \in {"serving", "crashed"} =>
                 /\ loadCalls = 1
                 /\ model.name = ModelName
                 /\ model.expLogit = hub.checkpoint
                 /\ processor # NoneProcessor
                 /\ labelsFile.exists
                 /\ labels = StripNonBlank(ReadLines(labelsFile.lines))
          /\ pc = "load_failed" => \A r \in Requests : req[r] = IdleReq)
    /\ [][(pc = "load_failed") => (pc' = "load_failed")]_vars

C9_Witness ==
    \E r \in Requests : req[r].stage = "scored" /\ loadCalls = 1

\* C10: two calls with the same event return the same response, whatever
\* was handled before or between them.
C10_SameEventSameResponse ==
    \A r1, r2 \in Requests :
        (req[r1].stage = "done" /\ req[r2].stage = "done"
           /\ req[r1].event = req[r2].event)
        => req[r1].resp = req[r2].resp

\* Two calls with one image, both answered with a list, over six labels.
C10_Witness ==
    \E r1, r2 \in Requests :
        /\ r1 # r2
        /\ Succeeded(r1) /\ Succeeded(r2)
        /\ req[r1].event = req[r2].event
        /\ Len(labels) > 5

====
